---- MODULE Spec2Model ----
(***************************************************************************)
(* A model of the minimal NTP server of src/main.py: the time codec        *)
(* (datetime_to_ntp_timestamp, ntp_timestamp_to_datetime), the request     *)
(* decoder (parse_ntp_request), the response encoder (build_ntp_response)  *)
(* and the receive loop of main.                                           *)
(*                                                                         *)
(* Number representation.  TLC integers are 32 bits wide, the program's    *)
(* are not, so wide values are kept in 16-bit limbs:                       *)
(*   - a datetime is the timedelta dt - NTP_EPOCH in its normalised form:  *)
(*     whole seconds e*2^32 + h*2^16 + l (floor, e is the 2^32-second era, *)
(*     negative before 1900) and microseconds us in 0..999999;             *)
(*   - a Python integer holding an NTP timestamp is                        *)
(*     e*2^64 + sh*2^48 + sl*2^32 + fh*2^16 + fl;                          *)
(*   - a reading of time.time() is a double between 2^30 and 2^31 (the     *)
(*     years 2004..2038), hence a multiple of 2^-22 s: readings are        *)
(*     counted in these ticks.                                             *)
(* The float expressions of the source are modelled by integer             *)
(* expressions with the same value: us/1e6*2^32 and f/2^32*1e6 are exact   *)
(* up to the final int(), because 2^32 scales exactly and 10^6 = 2^6*5^6.  *)
(*                                                                         *)
(* Environment.  The real clock only moves forward.  The socket calls      *)
(* recvfrom and sendto do not fail and the process is not interrupted;     *)
(* bind may be refused.  Datetimes stay within one 2^32-second era of the  *)
(* years 1900..2036, where total_seconds() is exact to the second.         *)
(***************************************************************************)
EXTENDS Integers, Sequences, FiniteSets, TLC

VARIABLES
    \* ---- the server (main) ----
    refsec,              \* the whole second the real clock's tick count starts in
    clock,               \* the real clock: ticks of 2^-22 s since refsec
    nticks,              \* how many times the clock has advanced
    base_time,           \* main: base_time
    use_custom_time,     \* main: use_custom_time (as a truth value)
    server_start_time,   \* main: server_start_time (a time.time() reading)
    pc,                  \* position of main
    data,                \* main: data of the datagram being served
    addr,                \* main: addr of the datagram being served
    origin_timestamp,    \* main: origin_timestamp
    receive_time,        \* main: receive_time
    transmit_time,       \* main: transmit_time
    error,               \* the exception that ended main, "" while none has
    rclock,              \* history: the clock when receive_time was read
    tclock,              \* history: the clock when time.time() was read at line 258
    requests,            \* history: the datagrams read so far
    sent,                \* history: the sendto calls made so far
    \* ---- the codec called on its own ----
    cdt,                 \* argument of datetime_to_ntp_timestamp
    cts,                 \* its result
    cback                \* ntp_timestamp_to_datetime of that result

srvvars == <<refsec, clock, nticks, base_time, use_custom_time, server_start_time,
             pc, data, addr, origin_timestamp, receive_time, transmit_time,
             error, rclock, tclock, requests, sent>>
codecvars == <<cdt, cts, cback>>
vars == <<srvvars, codecvars>>

----------------------------------------------------------------------------
\* Bounds of the model.

\* The clock advances at most MaxTicks times.
MaxTicks == 2
\* The server reads at most MaxDatagrams datagrams.
MaxDatagrams == 2
\* The codec is tried on the microseconds within MaxMicroSpread of each
\* interesting sub-second value.
MaxMicroSpread == 1

----------------------------------------------------------------------------
\* Arithmetic helpers.

W16 == 2^16
MICROS == 1000000    \* the 1_000_000 of the source
FIVE6 == 5^6         \* 10^6 = 2^6 * 5^6
TICKS == 2^22        \* clock ticks in a second

\* Python's None, where the other values are records.
None == [none |-> TRUE]
StructError == "struct.error"

\* A datetime d as seconds d.e*2^32 + d.h*2^16 + d.l and d.us microseconds
\* after NTP_EPOCH.
DateTime(e, h, l, us) == [e |-> e, h |-> h, l |-> l, us |-> us]

NTP_EPOCH == DateTime(0, 0, 0, 0)

\* dt + datetime.timedelta(microseconds = n), n >= 0.
AddMicros(dt, n) ==
    LET u  == dt.us + n
        l1 == dt.l + (u \div MICROS)
        h1 == dt.h + (l1 \div W16)
    IN  DateTime(dt.e + (h1 \div W16), h1 % W16, l1 % W16, u % MICROS)

----------------------------------------------------------------------------
\* Time codec.

\* int(delta.total_seconds()): int() truncates towards zero, so a negative
\* delta with a sub-second part yields its floor plus one.
TotalSecondsInt(dt) ==
    IF dt.e < 0 /\ dt.us > 0
    THEN LET l1 == dt.l + 1
             h1 == dt.h + (l1 \div W16)
         IN  [e |-> dt.e + (h1 \div W16), h |-> h1 % W16, l |-> l1 % W16]
    ELSE [e |-> dt.e, h |-> dt.h, l |-> dt.l]

\* A faulty variant: the fraction scaled by 2^31 instead of 2^32.
FractionalHalfScale(us) ==
    LET a == us * 2^9
    IN  <<a \div FIVE6, ((a % FIVE6) * W16) \div FIVE6>>

\* A faulty variant: round() in place of int().
FractionalRounded(us) ==
    LET a   == us * 2^10
        lo  == ((a % FIVE6) * W16) \div FIVE6
        up  == IF 2 * (((a % FIVE6) * W16) % FIVE6) > FIVE6 THEN 1 ELSE 0
    IN  <<(a \div FIVE6) + ((lo + up) \div W16), (lo + up) % W16>>

\* int((microseconds / 1_000_000) * (2 ** 32)) = floor(us * 2^26 / 5^6), as
\* the two limbs <<high, low>>.
Fractional(us) ==
    LET a == us * 2^10
    IN  <<a \div FIVE6, ((a % FIVE6) * W16) \div FIVE6>>

\* (seconds << 32) | fractional.  fractional < 2^32, so the OR is a sum.
datetime_to_ntp_timestamp(dt) ==
    LET seconds    == TotalSecondsInt(dt)
        fractional == Fractional(dt.us)
    IN  [e |-> seconds.e, sh |-> seconds.h, sl |-> seconds.l,
         fh |-> fractional[1], fl |-> fractional[2]]

\* int((fractional / (2 ** 32)) * 1_000_000) = floor(f * 5^6 / 2^26).
MicrosOfFraction(fh, fl) ==
    (fh * FIVE6 + ((fl * FIVE6) \div W16)) \div 2^10

\* seconds = (ts >> 32) & 0xFFFFFFFF, fractional = ts & 0xFFFFFFFF, and the
\* datetime NTP_EPOCH + timedelta(seconds, microseconds).
ntp_timestamp_to_datetime(ts) ==
    DateTime(0, ts.sh, ts.sl, MicrosOfFraction(ts.fh, ts.fl))

----------------------------------------------------------------------------
\* struct.pack / struct.unpack, network byte order.

\* The two bytes of a 16-bit limb, high byte first.
Bytes16(w) == <<w \div 256, w % 256>>

\* A faulty variant: the eight bytes in little-endian order.
struct_pack_Q_le(v) ==
    IF v.e # 0
    THEN [raised |-> StructError, bytes |-> <<>>]
    ELSE [raised |-> "",
          bytes  |-> <<v.fl % 256, v.fl \div 256, v.fh % 256, v.fh \div 256,
                       v.sl % 256, v.sl \div 256, v.sh % 256, v.sh \div 256>>]

\* struct.pack('!Q', v): raises struct.error unless 0 <= v < 2^64.
struct_pack_Q(v) ==
    IF v.e # 0
    THEN [raised |-> StructError, bytes |-> <<>>]
    ELSE [raised |-> "",
          bytes  |-> Bytes16(v.sh) \o Bytes16(v.sl) \o Bytes16(v.fh) \o Bytes16(v.fl)]

\* struct.unpack('!Q', b)[0] of eight bytes b.
struct_unpack_Q(b) ==
    [e  |-> 0,
     sh |-> b[1] * 256 + b[2], sl |-> b[3] * 256 + b[4],
     fh |-> b[5] * 256 + b[6], fl |-> b[7] * 256 + b[8]]

\* struct.pack('!b', n) of a signed byte: two's complement.
struct_pack_b(n) == <<IF n < 0 THEN n + 256 ELSE n>>

\* struct.pack('!I', n) for 0 <= n < 2^16.
struct_pack_I(n) == <<0, 0>> \o Bytes16(n)

----------------------------------------------------------------------------
\* Request decoder.

PACKET_LEN == 48

\* A faulty variant: a request of exactly 48 bytes is turned away too.
parse_ntp_request_strict(d) ==
    IF Len(d) <= PACKET_LEN
    THEN None
    ELSE struct_unpack_Q(SubSeq(d, 25, 32))

\* A faulty variant: only the presence of the timestamp field is checked.
parse_ntp_request_lenient(d) ==
    IF Len(d) < 32
    THEN None
    ELSE struct_unpack_Q(SubSeq(d, 25, 32))

\* data[24:32] holds eight bytes whenever len(data) >= 48, so struct.unpack
\* never raises and the except branch is dead.
parse_ntp_request(d) ==
    IF Len(d) < PACKET_LEN
    THEN None
    ELSE struct_unpack_Q(SubSeq(d, 25, 32))

----------------------------------------------------------------------------
\* Response encoder.

flags == 0 * 2^6 + 4 * 2^3 + 4      \* (0 << 6) | (4 << 3) | 4
stratum == 2
poll == 1
precision == 0 - 20
root_delay == (1 * 2^16) \div 1000  \* int(0.001 * (1 << 16))
root_dispersion == (1 * 2^16) \div 1000
ref_id == <<76, 79, 67, 76>>        \* b'LOCL'

\* A faulty variant: the reference timestamp is left out of the packet.
build_ntp_response_noref(origin_time, receive_time_, transmit_time_) ==
    LET receive_ntp  == datetime_to_ntp_timestamp(receive_time_)
        transmit_ntp == datetime_to_ntp_timestamp(transmit_time_)
        p_org == struct_pack_Q(origin_time)
        p_rcv == struct_pack_Q(receive_ntp)
        p_xmt == struct_pack_Q(transmit_ntp)
    IN  IF \E p \in {p_org, p_rcv, p_xmt} : p.raised # ""
        THEN [raised |-> StructError, packet |-> <<>>]
        ELSE [raised |-> "",
              packet |-> <<flags, stratum, poll>> \o struct_pack_b(precision)
                         \o struct_pack_I(root_delay)
                         \o struct_pack_I(root_dispersion)
                         \o ref_id
                         \o p_org.bytes \o p_rcv.bytes \o p_xmt.bytes]

\* The packet, or the struct.error raised by the first '!Q' pack that is
\* handed an integer outside 0 .. 2^64 - 1.
build_ntp_response(origin_time, receive_time_, transmit_time_) ==
    LET receive_ntp   == datetime_to_ntp_timestamp(receive_time_)
        transmit_ntp  == datetime_to_ntp_timestamp(transmit_time_)
        ref_timestamp == transmit_ntp
        p_ref == struct_pack_Q(ref_timestamp)
        p_org == struct_pack_Q(origin_time)
        p_rcv == struct_pack_Q(receive_ntp)
        p_xmt == struct_pack_Q(transmit_ntp)
    IN  IF \E p \in {p_ref, p_org, p_rcv, p_xmt} : p.raised # ""
        THEN [raised |-> StructError, packet |-> <<>>]
        ELSE [raised |-> "",
              packet |-> <<flags, stratum, poll>> \o struct_pack_b(precision)
                         \o struct_pack_I(root_delay)
                         \o struct_pack_I(root_dispersion)
                         \o ref_id
                         \o p_ref.bytes \o p_org.bytes \o p_rcv.bytes \o p_xmt.bytes]

----------------------------------------------------------------------------
\* The real clock and the virtual clock.

\* datetime.datetime.now(datetime.timezone.utc) when the clock stands at ck
\* ticks after the whole second rs: the reading floored to microseconds
\* (t ticks are t * 5^6 / 2^16 microseconds).
Now(rs, ck) ==
    LET t  == ck % TICKS
        us == (t \div W16) * FIVE6 + ((t % W16) * FIVE6) \div W16
        l1 == rs[3] + (ck \div TICKS)
        h1 == rs[2] + (l1 \div W16)
    IN  DateTime(rs[1] + (h1 \div W16), h1 % W16, l1 % W16, us)

\* The microseconds of datetime.timedelta(seconds = x) for the float
\* x = k * 2^-22, k >= 0: x * 10^6 rounded to the nearest integer, ties to
\* the even one.
TimedeltaMicros(k) ==
    LET f   == (k \div W16) * FIVE6 + ((k % W16) * FIVE6) \div W16
        rem == ((k % W16) * FIVE6) % W16
    IN  IF 2 * rem > W16 THEN f + 1
        ELSE IF 2 * rem = W16 THEN f + (f % 2)
        ELSE f

\* elapsed_seconds = time.time() - server_start_time, in ticks; both are
\* doubles of one binade, so the subtraction is exact.
ElapsedTicks(now_, start) == now_ - start

\* A faulty variant: a virtual clock frozen at the base time.
VirtualTimeFrozen(base, k) == base

\* base_time + datetime.timedelta(seconds = elapsed_seconds).
VirtualTime(base, k) == AddMicros(base, TimedeltaMicros(k))

----------------------------------------------------------------------------
\* The server: main.

RECV_BUFSIZE == 1024

\* A datagram of n bytes: byte 0 is first, bytes 24..31 are org (as far as
\* the datagram reaches), every other byte is fill.
Datagram(n, first, org, fill) ==
    [i \in 1..n |-> IF i = 1 THEN first
                    ELSE IF i \in 25..32 THEN org[i - 24]
                    ELSE fill]

\* What recvfrom returns, sender and datagram: an empty datagram, one cut
\* right after the timestamp field, one a byte short, datagrams of exactly
\* 48 bytes with client, server and reserved mode bits, and a longer one.
Arrivals ==
    { [addr |-> "10.0.0.1:123",   data |-> Datagram(0, 0, <<0, 0, 0, 0, 0, 0, 0, 0>>, 0)],
      [addr |-> "10.0.0.2:40000", data |-> Datagram(32, 35, <<1, 2, 3, 4, 5, 6, 7, 8>>, 0)],
      [addr |-> "10.0.0.1:123",   data |-> Datagram(47, 35, <<1, 2, 3, 4, 5, 6, 7, 8>>, 255)],
      [addr |-> "10.0.0.1:123",   data |-> Datagram(48, 35, <<0, 0, 0, 0, 0, 0, 0, 0>>, 0)],
      [addr |-> "10.0.0.2:40000",
       data |-> Datagram(48, 228, <<255, 254, 253, 252, 251, 250, 249, 248>>, 170)],
      [addr |-> "10.0.0.2:40000", data |-> Datagram(60, 0, <<1, 2, 3, 4, 5, 6, 7, 8>>, 85)] }

\* Where the real clock stands when the server starts, as the whole second
\* and the tick within it: the start of a present-day second, and the last
\* tick before the seconds field of a timestamp wraps (2036-02-07).
ClockOrigins == { <<<<0, 60721, 23039>>, 0>>, <<<<0, 65535, 65535>>, TICKS - 1>> }

\* By how many ticks the clock advances at once: one tick (0.24 us) and
\* 2^15 ticks (1/128 s, a tie of the rounding to microseconds).
TickSteps == {1, 2^15}

\* Values of --time / NTP_CUSTOM_TIME after parse_custom_time:
\* 2024-01-15T10:30:00Z, a value one microsecond before a whole second,
\* half a second and a whole second before the NTP epoch, and the first
\* second of 2036 that does not fit in 32 bits.
BaseTimes ==
    << DateTime(0, 59727, 34728, 0),
       DateTime(0, 59727, 34728, 999999),
       DateTime(0 - 1, 65535, 65535, 500000),
       DateTime(0 - 1, 65535, 65535, 0),
       DateTime(1, 0, 0, 0) >>

CodecIdle == cdt = NTP_EPOCH /\ cts = None /\ cback = None

\* main up to line 221: base_time = get_custom_time(custom_time) and
\* use_custom_time.  Without a custom time the base is the clock's reading.
Init ==
    /\ \E o \in ClockOrigins : refsec = o[1] /\ clock = o[2]
    /\ nticks = 0
    /\ use_custom_time \in BOOLEAN
    /\ IF use_custom_time
       THEN \E i \in DOMAIN BaseTimes : base_time = BaseTimes[i]
       ELSE base_time = Now(refsec, clock)
    /\ server_start_time = 0
    /\ pc = "start"
    /\ data = <<>> /\ addr = "" /\ origin_timestamp = None
    /\ receive_time = None /\ transmit_time = None /\ error = ""
    /\ rclock = 0 /\ tclock = 0 /\ requests = <<>> /\ sent = <<>>
    /\ CodecIdle

\* Real time passes, between any two steps of main.
Tick ==
    /\ pc # "exited"
    /\ nticks < MaxTicks
    /\ \E d \in TickSteps : clock' = clock + d
    /\ nticks' = nticks + 1
    /\ UNCHANGED <<refsec, base_time, use_custom_time, server_start_time, pc, data,
                   addr, origin_timestamp, receive_time, transmit_time, error,
                   rclock, tclock, requests, sent, codecvars>>

\* Lines 224-239: server_start_time = time.time(), and the socket is bound.
StartServer ==
    /\ pc = "start"
    /\ server_start_time' = clock
    /\ pc' = "recv"
    /\ UNCHANGED <<refsec, clock, nticks, base_time, use_custom_time, data, addr,
                   origin_timestamp, receive_time, transmit_time, error, rclock,
                   tclock, requests, sent, codecvars>>

\* Lines 224-237, 273-276, 284: bind raises PermissionError and main
\* returns 1.
StartDenied ==
    /\ pc = "start"
    /\ server_start_time' = clock
    /\ pc' = "exited"
    /\ error' = "PermissionError"
    /\ UNCHANGED <<refsec, clock, nticks, base_time, use_custom_time, data, addr,
                   origin_timestamp, receive_time, transmit_time, rclock, tclock,
                   requests, sent, codecvars>>

\* Lines 243-250: data, addr = server_socket.recvfrom(1024), and the request
\* is parsed; an invalid one is ignored and the loop continues.
Receive ==
    /\ pc = "recv"
    /\ Len(requests) < MaxDatagrams
    /\ \E a \in Arrivals :
        /\ data' = SubSeq(a.data, 1, IF Len(a.data) < RECV_BUFSIZE
                                     THEN Len(a.data) ELSE RECV_BUFSIZE)
        /\ addr' = a.addr
        /\ requests' = Append(requests, a)
    /\ origin_timestamp' = parse_ntp_request(data')
    /\ pc' = IF origin_timestamp' = None THEN "recv" ELSE "stamp"
    /\ UNCHANGED <<refsec, clock, nticks, base_time, use_custom_time,
                   server_start_time, receive_time, transmit_time, error, rclock,
                   tclock, sent, codecvars>>

\* Line 253: receive_time = datetime.datetime.now(datetime.timezone.utc).
StampReceive ==
    /\ pc = "stamp"
    /\ receive_time' = Now(refsec, clock)
    /\ rclock' = clock
    /\ pc' = "transmit"
    /\ UNCHANGED <<refsec, clock, nticks, base_time, use_custom_time,
                   server_start_time, data, addr, origin_timestamp, transmit_time,
                   error, tclock, requests, sent, codecvars>>

\* A faulty variant: the virtual clock is used whether or not a custom time is set.
ComputeTransmitAlwaysVirtual ==
    /\ pc = "transmit"
    /\ transmit_time' =
           VirtualTime(base_time, ElapsedTicks(clock, server_start_time))
    /\ tclock' = IF use_custom_time THEN clock ELSE rclock
    /\ pc' = "respond"
    /\ UNCHANGED <<refsec, clock, nticks, base_time, use_custom_time,
                   server_start_time, data, addr, origin_timestamp, receive_time,
                   error, rclock, requests, sent, codecvars>>

\* A faulty variant: the virtual clock is driven by the reading that gave
\* receive_time instead of a reading of its own.
ComputeTransmitFromReceive ==
    /\ pc = "transmit"
    /\ IF use_custom_time
       THEN /\ transmit_time' =
                  VirtualTime(base_time, ElapsedTicks(rclock, server_start_time))
            /\ tclock' = clock
       ELSE /\ transmit_time' = receive_time
            /\ tclock' = rclock
    /\ pc' = "respond"
    /\ UNCHANGED <<refsec, clock, nticks, base_time, use_custom_time,
                   server_start_time, data, addr, origin_timestamp, receive_time,
                   error, rclock, requests, sent, codecvars>>

\* Lines 256-262: the transmit time, from a new reading of time.time() when
\* a custom time is in use, the receive time otherwise.
ComputeTransmit ==
    /\ pc = "transmit"
    /\ IF use_custom_time
       THEN /\ transmit_time' =
                  VirtualTime(base_time, ElapsedTicks(clock, server_start_time))
            /\ tclock' = clock
       ELSE /\ transmit_time' = receive_time
            /\ tclock' = rclock
    /\ pc' = "respond"
    /\ UNCHANGED <<refsec, clock, nticks, base_time, use_custom_time,
                   server_start_time, data, addr, origin_timestamp, receive_time,
                   error, rclock, requests, sent, codecvars>>

\* A faulty variant: every response goes to the sender of the first datagram.
RespondToFirstSender ==
    /\ pc = "respond"
    /\ LET response == build_ntp_response(origin_timestamp, receive_time, transmit_time)
       IN  IF response.raised # ""
           THEN /\ error' = response.raised
                /\ pc' = "exited"
                /\ sent' = sent
           ELSE /\ sent' = Append(sent, [addr     |-> requests[1].addr,
                                         packet   |-> response.packet,
                                         request  |-> Len(requests),
                                         receive  |-> receive_time,
                                         transmit |-> transmit_time,
                                         rclock   |-> rclock,
                                         tclock   |-> tclock])
                /\ pc' = "recv"
                /\ error' = error
    /\ UNCHANGED <<refsec, clock, nticks, base_time, use_custom_time,
                   server_start_time, data, addr, origin_timestamp, receive_time,
                   transmit_time, rclock, tclock, requests, codecvars>>

\* Lines 265-271: the response is built and sent to addr.  A struct.error
\* raised by build_ntp_response is caught at line 280: nothing is sent, the
\* socket is closed and main returns 1.
Respond ==
    /\ pc = "respond"
    /\ LET response == build_ntp_response(origin_timestamp, receive_time, transmit_time)
       IN  IF response.raised # ""
           THEN /\ error' = response.raised
                /\ pc' = "exited"
                /\ sent' = sent
           ELSE /\ sent' = Append(sent, [addr     |-> addr,
                                         packet   |-> response.packet,
                                         request  |-> Len(requests),
                                         receive  |-> receive_time,
                                         transmit |-> transmit_time,
                                         rclock   |-> rclock,
                                         tclock   |-> tclock])
                /\ pc' = "recv"
                /\ error' = error
    /\ UNCHANGED <<refsec, clock, nticks, base_time, use_custom_time,
                   server_start_time, data, addr, origin_timestamp, receive_time,
                   transmit_time, rclock, tclock, requests, codecvars>>

Next ==
    \/ Tick
    \/ StartServer
    \/ StartDenied
    \/ Receive
    \/ StampReceive
    \/ ComputeTransmit
    \/ Respond

Spec == Init /\ [][Next]_vars

----------------------------------------------------------------------------
\* The codec called on its own.

\* Whole seconds tried: the epoch, the second after it, the Unix epoch, a
\* limb boundary, a present-day value, the last second of 2036, and one
\* second on either side of the representable range.
CodecSeconds ==
    { <<0, 0, 0>>, <<0, 0, 1>>, <<0, 33706, 32384>>, <<0, 0, 65535>>,
      <<0, 60721, 23039>>, <<0, 65535, 65535>>,
      <<-1, 65535, 65535>>, <<-1, 65535, 65534>>, <<1, 0, 0>> }

CodecMicros ==
    { c + d : c \in {0, FIVE6, 31 * FIVE6, 32 * FIVE6, 500000, 999999},
              d \in (0 - MaxMicroSpread)..MaxMicroSpread }
        \cap (0..(MICROS - 1))

CodecInstants ==
    { DateTime(s[1], s[2], s[3], u) : s \in CodecSeconds, u \in CodecMicros }

SrvIdle ==
    /\ refsec = <<0, 0, 0>> /\ clock = 0 /\ nticks = 0
    /\ base_time = NTP_EPOCH /\ use_custom_time = FALSE
    /\ server_start_time = 0 /\ pc = "idle"
    /\ data = <<>> /\ addr = "" /\ origin_timestamp = None
    /\ receive_time = None /\ transmit_time = None /\ error = ""
    /\ rclock = 0 /\ tclock = 0 /\ requests = <<>> /\ sent = <<>>

CodecInit ==
    /\ SrvIdle
    /\ cdt \in CodecInstants
    /\ cts = None
    /\ cback = None

Encode ==
    /\ cts = None
    /\ cts' = datetime_to_ntp_timestamp(cdt)
    /\ UNCHANGED <<cdt, cback, srvvars>>

Decode ==
    /\ cts # None
    /\ cback = None
    /\ cback' = ntp_timestamp_to_datetime(cts)
    /\ UNCHANGED <<cdt, cts, srvvars>>

CodecNext == Encode \/ Decode

CodecSpec == CodecInit /\ [][CodecNext]_vars

----------------------------------------------------------------------------
\* Properties of the codec, checked under CodecSpec.

\* The datetime lies at or after the NTP epoch and its seconds fit in 32
\* bits.
Representable(dt) == dt.e = 0

\* us * 2^32 / 10^6 = us * 2^26 / 5^6 lies d * 2^16 / 5^6 above hi * 2^16,
\* for d = us * 2^10 - hi * 5^6.
FractionExcess(us, hi) == us * 2^10 - hi * FIVE6

\* C6: for every datetime x with microsecond resolution at or after the NTP
\* epoch whose seconds fit in 32 bits,
\* ntp_timestamp_to_datetime(datetime_to_ntp_timestamp(x)) has the whole
\* seconds of x and differs from x by at most one microsecond.
C6_RoundTrip ==
    (cback # None /\ Representable(cdt)) =>
        /\ cback.e = cdt.e /\ cback.h = cdt.h /\ cback.l = cdt.l
        /\ cback.us - cdt.us \in (0 - 1)..1

\* C6 witness: a round trip that lost a microsecond, in 2026.
C6_Witness ==
    /\ cback # None
    /\ cdt = DateTime(0, 60721, 23039, 499999)
    /\ cback = DateTime(0, 60721, 23039, 499998)

\* C10 as amended: for every representable datetime the timestamp is
\* (seconds << 32) | fraction, where seconds are the whole seconds since the
\* NTP epoch and fraction is floor(us / 10^6 * 2^32), the truncated value:
\* fraction <= us * 2^32 / 10^6 < fraction + 1, and fraction < 2^32.
C10_TruncatedFraction ==
    (cts # None /\ Representable(cdt)) =>
        /\ cts.e = 0 /\ cts.sh = cdt.h /\ cts.sl = cdt.l
        /\ cts.fh \in 0..(W16 - 1) /\ cts.fl \in 0..(W16 - 1)
        /\ LET d == FractionExcess(cdt.us, cts.fh)
           IN  /\ d \in 0..(FIVE6 - 1)
               /\ cts.fl * FIVE6 <= d * W16
               /\ d * W16 < (cts.fl + 1) * FIVE6

\* C10 witness: one microsecond is 4294.967... units of 2^-32 s and is
\* encoded as 4294.
C10_Witness ==
    /\ cts # None
    /\ cdt = DateTime(0, 60721, 23039, 1)
    /\ cts = [e |-> 0, sh |-> 60721, sl |-> 23039, fh |-> 0, fl |-> 4294]

\* C10 as stated: the fraction is the rounded value, within half a unit of
\* us * 2^32 / 10^6.
C10_RoundedFraction ==
    (cts # None /\ Representable(cdt)) =>
        /\ cts.e = 0 /\ cts.sh = cdt.h /\ cts.sl = cdt.l
        /\ cts.fh \in 0..(W16 - 1) /\ cts.fl \in 0..(W16 - 1)
        /\ LET d == FractionExcess(cdt.us, cts.fh)
           IN  /\ d \in (0 - 1)..FIVE6
               /\ 2 * (cts.fl * FIVE6 - d * W16) <= FIVE6
               /\ 2 * (d * W16 - cts.fl * FIVE6) <= FIVE6

----------------------------------------------------------------------------
\* Properties of the server, checked under Spec.

\* The datagram the j-th response answers.
RequestOf(j) == requests[sent[j].request]

\* The datagram is one the decoder accepts.
Accepted(i) == Len(requests[i].data) >= PACKET_LEN

\* The responses sent for the i-th datagram.
Responses(i) == { j \in DOMAIN sent : sent[j].request = i }

\* The server is done with the i-th datagram: it has read a later one, waits
\* for the next one, or has returned.
Served(i) == i < Len(requests) \/ pc \in {"recv", "exited"}

\* a - b in microseconds, for datetimes less than half an hour apart.
DiffMicros(a, b) ==
    (((a.e - b.e) * W16 + (a.h - b.h)) * W16 + (a.l - b.l)) * MICROS + (a.us - b.us)

\* C1: the response sent for a datagram of 48 or more bytes carries in
\* bytes 24-31 the eight bytes at offset 24 of that datagram, whatever else
\* the datagram holds and in either clock mode.
C1_OriginEcho ==
    \A j \in DOMAIN sent :
        /\ Accepted(sent[j].request)
        /\ SubSeq(sent[j].packet, 25, 32) = SubSeq(RequestOf(j).data, 25, 32)

\* C1 witness: with a custom time, a response echoes the origin bytes
\* FF FE FD FC FB FA F9 F8 of its request.
C1_Witness ==
    /\ use_custom_time
    /\ \E j \in DOMAIN sent :
        /\ SubSeq(RequestOf(j).data, 25, 32) = <<255, 254, 253, 252, 251, 250, 249, 248>>
        /\ SubSeq(sent[j].packet, 25, 32) = <<255, 254, 253, 252, 251, 250, 249, 248>>

\* C2: parse_ntp_request returns None for every input of 47 bytes or fewer
\* and a 64-bit origin value for every input of exactly 48 bytes, whatever
\* its content.
C2_RejectionBoundary ==
    requests # <<>> =>
        LET d == requests[Len(requests)].data
        IN  /\ Len(d) <= 47 => origin_timestamp = None
            /\ Len(d) = 48 =>
                 /\ origin_timestamp # None
                 /\ origin_timestamp.e = 0
                 /\ \A f \in {"sh", "sl", "fh", "fl"} :
                        origin_timestamp[f] \in 0..(W16 - 1)

\* C2 witness: a datagram of 47 bytes was rejected, and one of 48 bytes
\* whose first byte has all leap bits set and the server mode is accepted.
C2_Witness ==
    /\ Len(requests) = 2
    /\ Len(requests[1].data) = 47
    /\ sent = <<>>
    /\ Len(requests[2].data) = 48
    /\ requests[2].data[1] = 228
    /\ origin_timestamp # None

\* C3: the step that reads a datagram the decoder rejects sends nothing,
\* does not end the server, leaves base_time, use_custom_time and
\* server_start_time as they were and leaves the server waiting for the next
\* datagram; and no response is ever sent for a rejected datagram.
C3_MalformedDropped ==
    /\ [](\A j \in DOMAIN sent : Accepted(sent[j].request))
    /\ [][(/\ Len(requests') = Len(requests) + 1
           /\ Len(requests'[Len(requests')].data) < PACKET_LEN)
          => (/\ sent' = sent
              /\ pc' = "recv"
              /\ error' = ""
              /\ base_time' = base_time
              /\ use_custom_time' = use_custom_time
              /\ server_start_time' = server_start_time)]_vars

\* C3 witness: the first datagram was rejected, and the second has been
\* served.
C3_Witness ==
    /\ Len(requests) = 2
    /\ ~Accepted(1)
    /\ \E j \in DOMAIN sent : sent[j].request = 2
    /\ pc = "recv"

\* C4 as amended: with a custom time, for responses computed at clock
\* readings r1 < r2 the transmit instants never go backwards and
\* transmit(r2) - transmit(r1) differs from r2 - r1 by at most one
\* microsecond (a microsecond is 2^16 / 5^6 ticks).
C4_LockstepWithinMicrosecond ==
    use_custom_time =>
        \A i, j \in DOMAIN sent :
            sent[i].tclock < sent[j].tclock =>
                LET dt == DiffMicros(sent[j].transmit, sent[i].transmit)
                    dr == sent[j].tclock - sent[i].tclock
                IN  /\ dt >= 0
                    /\ dt * W16 - dr * FIVE6 <= W16
                    /\ dr * FIVE6 - dt * W16 <= W16

\* C4 witness: two responses 1/128 s apart whose transmit instants are 7812
\* or 7813 microseconds apart.
C4_Witness ==
    /\ use_custom_time
    /\ \E i, j \in DOMAIN sent :
        /\ sent[j].tclock - sent[i].tclock = 2^15
        /\ DiffMicros(sent[j].transmit, sent[i].transmit) \in {7812, 7813}

\* C4 as stated: transmit(r2) - transmit(r1) = r2 - r1 exactly.
C4_LockstepExact ==
    use_custom_time =>
        \A i, j \in DOMAIN sent :
            sent[i].tclock < sent[j].tclock =>
                DiffMicros(sent[j].transmit, sent[i].transmit) * W16
                    = (sent[j].tclock - sent[i].tclock) * FIVE6

\* C5: without a custom time the transmit instant of every response is the
\* instant read from the clock for that request, and the receive and
\* transmit timestamps of the packet are equal.
C5_Passthrough ==
    ~use_custom_time =>
        \A j \in DOMAIN sent :
            /\ sent[j].transmit = Now(refsec, sent[j].rclock)
            /\ sent[j].transmit = sent[j].receive
            /\ SubSeq(sent[j].packet, 41, 48) = SubSeq(sent[j].packet, 33, 40)

\* C5 witness: without a custom time a response was sent after the clock
\* had advanced since the server started.
C5_Witness ==
    /\ ~use_custom_time
    /\ \E j \in DOMAIN sent : sent[j].rclock > server_start_time

\* The fixed fields of a response packet: 48 bytes, byte 0 is 0b00100100,
\* byte 1 is 2 and bytes 12-15 are "LOCL".
WellShaped(packet) ==
    /\ Len(packet) = 48
    /\ packet[1] = 36
    /\ packet[2] = 2
    /\ SubSeq(packet, 13, 16) = <<76, 79, 67, 76>>

\* C7 as amended: for any origin timestamp and any receive and transmit
\* instants at or after the NTP epoch whose seconds fit in 32 bits,
\* build_ntp_response returns a packet of exactly 48 bytes whose byte 0 is
\* 0b00100100, whose byte 1 is 2 and whose bytes 12-15 are "LOCL"; every
\* packet it returns for other instants has that shape too.
C7_ShapeWhenRepresentable ==
    /\ \A j \in DOMAIN sent : WellShaped(sent[j].packet)
    /\ pc = "respond" =>
         LET response == build_ntp_response(origin_timestamp, receive_time,
                                            transmit_time)
         IN  /\ (Representable(receive_time) /\ Representable(transmit_time))
                    => response.raised = ""
             /\ response.raised = "" => WellShaped(response.packet)

\* C7 witness: a well-shaped response was sent while a custom time a
\* microsecond before a whole second was in use.
C7_Witness ==
    /\ use_custom_time
    /\ base_time.us = 999999
    /\ \E j \in DOMAIN sent : WellShaped(sent[j].packet)

\* C7 as stated: build_ntp_response returns a well-shaped packet for any
\* receive and transmit instants.
C7_ShapeAlways ==
    pc = "respond" =>
        LET response == build_ntp_response(origin_timestamp, receive_time,
                                           transmit_time)
        IN  response.raised = "" /\ WellShaped(response.packet)

\* C8 as amended: for every accepted datagram whose receive and transmit
\* instants are representable the server sends exactly one 48-byte response,
\* to the address the datagram came from and before it reads the next
\* datagram; for an accepted datagram with an instant that is not
\* representable it may instead send nothing and return with a
\* struct.error; no datagram gets more than one response, a rejected one
\* gets none, and no response goes to another address than its request's.
C8_OneResponsePerServedRequest ==
    /\ \A j \in DOMAIN sent :
        /\ sent[j].addr = RequestOf(j).addr
        /\ Len(sent[j].packet) = 48
    /\ \A i \in DOMAIN requests :
        /\ Cardinality(Responses(i)) <= 1
        /\ ~Accepted(i) => Responses(i) = {}
        /\ (Accepted(i) /\ Served(i)) =>
             \/ Cardinality(Responses(i)) = 1
             \/ /\ Responses(i) = {}
                /\ i = Len(requests)
                /\ pc = "exited"
                /\ error = StructError
                /\ ~(Representable(receive_time) /\ Representable(transmit_time))

\* C8 witness: two accepted datagrams from different senders have each been
\* answered at their own address.
C8_Witness ==
    /\ Len(requests) = 2
    /\ Len(sent) = 2
    /\ pc = "recv"
    /\ sent[1].request = 1 /\ sent[2].request = 2
    /\ sent[1].addr = requests[1].addr
    /\ sent[2].addr = requests[2].addr
    /\ sent[1].addr # sent[2].addr

\* C8 as stated: every accepted datagram gets exactly one 48-byte response,
\* at its sender's address, before the next datagram is read.
C8_OneResponsePerAcceptedRequest ==
    /\ \A j \in DOMAIN sent :
        /\ sent[j].addr = RequestOf(j).addr
        /\ Len(sent[j].packet) = 48
    /\ \A i \in DOMAIN requests :
        /\ Cardinality(Responses(i)) <= 1
        /\ (Accepted(i) /\ Served(i)) => Cardinality(Responses(i)) = 1

\* C9 as amended: with a custom time the transmit instant of a response is
\* base_time + (t - server_start_time) rounded to the nearest microsecond,
\* where t is a reading of the clock of its own, taken no earlier than the
\* reading that gave the receive instant; so transmit_time - receive_time
\* grows with the time that passes between the two readings.
C9_TransmitFromOwnReading ==
    use_custom_time =>
        \A j \in DOMAIN sent :
            LET dt == DiffMicros(sent[j].transmit, base_time)
                k  == sent[j].tclock - server_start_time
            IN  /\ sent[j].receive = Now(refsec, sent[j].rclock)
                /\ sent[j].tclock >= sent[j].rclock
                /\ 2 * (dt * W16 - k * FIVE6) <= W16
                /\ 2 * (k * FIVE6 - dt * W16) <= W16

\* C9 witness: a response whose transmit instant was computed 1/128 s after
\* its receive instant was read.
C9_Witness ==
    /\ use_custom_time
    /\ \E j \in DOMAIN sent :
        /\ sent[j].tclock = sent[j].rclock + 2^15
        /\ sent[j].transmit # VirtualTime(base_time, sent[j].rclock - server_start_time)

\* C9 as stated: the transmit instant is base_time plus the time from the
\* server's start to the reading that gave the receive instant.
C9_TransmitFromReceiveInstant ==
    use_custom_time =>
        \A j \in DOMAIN sent :
            LET dt == DiffMicros(sent[j].transmit, base_time)
                k  == sent[j].rclock - server_start_time
            IN  /\ 2 * (dt * W16 - k * FIVE6) <= W16
                /\ 2 * (k * FIVE6 - dt * W16) <= W16

====
